---------------------------- MODULE Spec2Model ----------------------------
(***************************************************************************)
(* A model of the lunatic-tokio-wasmtime scheduler (src/src/main.rs).      *)
(*                                                                         *)
(* The state is the LunaticInner struct (the two atomic counters and the   *)
(* four DashMaps modules, instance_pre, started_at and ended_at), the      *)
(* unbounded mpsc channel between Lunatic::start and the scheduler loop,   *)
(* the scheduler loop's position, one record per tokio task the loop has   *)
(* spawned, and the position of the client thread that owns the Lunatic    *)
(* handle.  load and start take &mut self, so one thread at a time calls   *)
(* them.  In main that thread goes on to watch the sizes of started_at and *)
(* ended_at; the two locals it reads them into are part of the state.      *)
(*                                                                         *)
(* The bytes handed to Lunatic::load are an input.  What the wasmtime      *)
(* engine does with them (compile, link, instantiate) is a function of the *)
(* bytes, and what a call of hello does (return, trap, run out of fuel) a  *)
(* function of the bytes and of the ProcessId it is called with.           *)
(* A DashMap operation is one atomic step; the shard guard that            *)
(* instance_pre.get returns is not modelled.                               *)
(***************************************************************************)
EXTENDS Integers, Sequences, FiniteSets, TLC

(* ------------------------------ bounds -------------------------------- *)

\* Calls of Lunatic::load and Lunatic::start the client makes at most.
MaxCalls == 3
\* Largest value the monotonic clock behind Instant::now() reaches.
MaxTime == 1
\* Fuel injections of one spinning process that are followed one by one;
\* the remaining ones, which change nothing but that process's own
\* counter, are taken in a single step.
MaxTrackedYields == 1

(* -------------------------- program constants ------------------------- *)

\* store.add_fuel(1000)
InitialFuel == 1000
\* store.out_of_fuel_async_yield(u32::MAX, 1000): fuel per injection
FuelToInject == 1000
\* store.out_of_fuel_async_yield(u32::MAX, 1000): the number of injections,
\* u32::MAX, is above every integer TLC represents, and so is 2^64, where
\* the AtomicU64 counters wrap.  A task counts the injections it has had
\* and notes in `exhausted` that it has had all u32::MAX of them; the
\* counters are far from wrapping within the bounds.

(* ------------------------------- inputs ------------------------------- *)

\* The byte strings a caller hands to Lunatic::load, by what the engine
\* does with them:
\*   "garbage"  Module::new fails
\*   "unlinked" compiles, but imports a function the Linker does not define
\*   "wat"      the text module of main: its export "hello" has no
\*              parameter and no result, so get_typed_func::<u64, u64>
\*              fails
\*   "hello"    a module like example/src/lib.rs, which exports
\*              hello: u64 -> u64
Bytecodes == {"garbage", "unlinked", "wat", "hello"}

\* Module::new(&engine, bytes) is Ok
Compiles(b) == b # "garbage"

\* linker.instantiate_pre(store, &module) is Ok
Links(b) == b # "unlinked"

\* instantiate_async and get_typed_func::<u64, u64, _>(.., "hello") are Ok
HasTypedHello(b) == b = "hello"

\* What hello(process_id) does, a function of the bytes and the argument:
\* it returns, it traps, or it never does either.
EntryBehaviours == {"returns", "traps", "spins"}

\* Fuel hello consumes before it returns (more than the initial grant) or
\* traps
EntryCost(e) == CASE e = "returns" -> 1500
                  [] e = "traps" -> 10
                  [] OTHER -> 0

\* ModuleIds a caller passes to Lunatic::start: the first two that load
\* issues.  Either is the id of no module when start is called before the
\* load that issues it, or when that load never comes.
ModuleIds == {0, 1}

(* ------------------------------ variables ----------------------------- *)

VARIABLES
    next_module_id,   \* LunaticInner.next_module_id
    next_process_id,  \* LunaticInner.next_process_id
    modules,          \* LunaticInner.modules: ModuleId -> bytes
    instance_pre,     \* LunaticInner.instance_pre: ModuleId -> bytes
    started_at,       \* LunaticInner.started_at: ProcessId -> Instant
    ended_at,         \* LunaticInner.ended_at: ProcessId -> Instant
    queue,            \* the messages in the unbounded channel
    sender,           \* TRUE while the Lunatic handle (the only sender) lives
    loop_pc,          \* the scheduler loop: "recv", "next_iter", "dropped"
    tasks,            \* ProcessId -> the tokio task spawned for it
    client_pc,        \* the thread owning the handle
    loading,          \* the load call in progress: [bytes, id]
    now,              \* the monotonic clock behind Instant::now()
    load_results,     \* what each load call returned, in call order
    start_results,    \* what each start call returned, in call order
    writes,           \* ProcessId -> inserts into started_at and ended_at
    observed          \* main's locals `ended` and `started`, as last read

vars == <<next_module_id, next_process_id, modules, instance_pre, started_at,
          ended_at, queue, sender, loop_pc, tasks, client_pc, loading, now,
          load_results, start_results, writes, observed>>

(* ------------------------------- helpers ------------------------------ *)

\* DashMap::insert(k, v)
Insert(map, k, v) == [x \in DOMAIN map \cup {k} |-> IF x = k THEN v ELSE map[x]]

\* DashMap::default()
EmptyMap == [x \in {} |-> 0]

\* The counter is read and not advanced.
FetchAddStuck(counter) == counter

\* AtomicU64::fetch_add(1, Relaxed): the value stored
FetchAdd(counter) == counter + 1

Min(a, b) == IF a <= b THEN a ELSE b

\* Instant::now(): a value not below any value read before
InstantNow == now..Min(now + 1, MaxTime)

NoLoad == [bytes |-> "none", id |-> 0]

\* main, before line 133 has run: neither local holds a value
NotRead == [ended |-> -1, started |-> -1]

Init ==
    /\ next_module_id = 0
    /\ next_process_id = 0
    /\ modules = EmptyMap
    /\ instance_pre = EmptyMap
    /\ started_at = EmptyMap
    /\ ended_at = EmptyMap
    /\ queue = <<>>
    /\ sender = TRUE
    /\ loop_pc = "recv"
    /\ tasks = EmptyMap
    /\ client_pc = "idle"
    /\ loading = NoLoad
    /\ now = 0
    /\ load_results = <<>>
    /\ start_results = <<>>
    /\ writes = EmptyMap
    /\ observed = NotRead


\* started_at.len() and ended_at.len(), as the monitor of main reads them
StartedCount == Cardinality(DOMAIN started_at)
EndedCount == Cardinality(DOMAIN ended_at)

(* ---------------------- the client: Lunatic::load --------------------- *)

\* The id is drawn before the bytes are compiled.
LoadCompileAfterFetchAdd(b) ==
    /\ client_pc = "idle"
    /\ Len(load_results) + Len(start_results) < MaxCalls
    /\ next_module_id' = FetchAdd(next_module_id)
    /\ IF Compiles(b)
       THEN /\ modules' = Insert(modules, next_module_id, b)
            /\ loading' = [bytes |-> b, id |-> next_module_id]
            /\ client_pc' = "load_link"
            /\ UNCHANGED load_results
       ELSE /\ load_results' = Append(load_results,
                                 [bytes |-> b, result |-> "Err", id |-> 0])
            /\ UNCHANGED <<modules, loading, client_pc>>
    /\ UNCHANGED <<next_process_id, instance_pre, started_at, ended_at, queue,
                   sender, loop_pc, tasks, now, start_results, writes,
                   observed>>

\* load, lines 96-98: Module::new(..)?, next_module_id.fetch_add(1),
\* modules.insert(id, module.clone()).  A compile error returns at the `?`.
LoadCompile(b) ==
    /\ client_pc = "idle"
    /\ Len(load_results) + Len(start_results) < MaxCalls
    /\ IF Compiles(b)
       THEN /\ next_module_id' = FetchAdd(next_module_id)
            /\ modules' = Insert(modules, next_module_id, b)
            /\ loading' = [bytes |-> b, id |-> next_module_id]
            /\ client_pc' = "load_link"
            /\ UNCHANGED load_results
       ELSE /\ load_results' = Append(load_results,
                                 [bytes |-> b, result |-> "Err", id |-> 0])
            /\ UNCHANGED <<next_module_id, modules, loading, client_pc>>
    /\ UNCHANGED <<next_process_id, instance_pre, started_at, ended_at, queue,
                   sender, loop_pc, tasks, now, start_results, writes>>
    /\ UNCHANGED observed

\* load, lines 99-104: linker.instantiate_pre(store, &module).unwrap(),
\* instance_pre.insert(id, ..), Ok(id).  The unwrap panics in the client
\* thread, whose unwinding drops the Lunatic handle it owns.
LoadLink ==
    /\ client_pc = "load_link"
    /\ IF Links(loading.bytes)
       THEN /\ instance_pre' = Insert(instance_pre, loading.id, loading.bytes)
            /\ load_results' = Append(load_results,
                 [bytes |-> loading.bytes, result |-> "Ok", id |-> loading.id])
            /\ client_pc' = "idle"
            /\ UNCHANGED sender
       ELSE /\ load_results' = Append(load_results,
                 [bytes |-> loading.bytes, result |-> "panic", id |-> loading.id])
            /\ client_pc' = "panicked"
            /\ sender' = FALSE
            /\ UNCHANGED instance_pre
    /\ loading' = NoLoad
    /\ UNCHANGED <<next_module_id, next_process_id, modules, started_at,
                   ended_at, queue, loop_pc, tasks, now, start_results, writes>>
    /\ UNCHANGED observed

(* --------------------- the client: Lunatic::start --------------------- *)

\* The receiver lives inside the future Lunatic::new returns.
ReceiverAlive == loop_pc # "dropped"

\* A channel of capacity one, whose try_send fails when it is full.
SendOkBounded(q) == loop_pc # "dropped" /\ Len(q) < 1

\* UnboundedSender::send(msg): Ok exactly when the receiver is alive,
\* whatever the channel holds.
SendOk(q) == ReceiverAlive

\* The id is taken only when the send has succeeded.
StartKeepsIdOnError(m) ==
    /\ client_pc = "idle"
    /\ Len(load_results) + Len(start_results) < MaxCalls
    /\ next_process_id' = IF SendOk(queue) THEN FetchAdd(next_process_id)
                          ELSE next_process_id
    /\ queue' = IF SendOk(queue)
                THEN Append(queue, <<m, next_process_id>>)
                ELSE queue
    /\ start_results' = Append(start_results,
         [module |-> m, id |-> next_process_id, ok |-> SendOk(queue)])
    /\ UNCHANGED <<next_module_id, modules, instance_pre, started_at, ended_at,
                   sender, loop_pc, tasks, client_pc, loading, now,
                   load_results, writes>>
    /\ UNCHANGED observed

\* The pair is sent twice.
StartSendsTwice(m) ==
    /\ client_pc = "idle"
    /\ Len(load_results) + Len(start_results) < MaxCalls
    /\ next_process_id' = FetchAdd(next_process_id)
    /\ queue' = IF SendOk(queue)
                THEN queue \o <<<<m, next_process_id>>, <<m, next_process_id>>>>
                ELSE queue
    /\ start_results' = Append(start_results,
         [module |-> m, id |-> next_process_id, ok |-> SendOk(queue)])
    /\ UNCHANGED <<next_module_id, modules, instance_pre, started_at, ended_at,
                   sender, loop_pc, tasks, client_pc, loading, now,
                   load_results, writes, observed>>

\* start, lines 90-92: fetch_add, sender.send((module_id, id))?, Ok(id)
Start(m) ==
    /\ client_pc = "idle"
    /\ Len(load_results) + Len(start_results) < MaxCalls
    /\ next_process_id' = FetchAdd(next_process_id)
    /\ queue' = IF SendOk(queue)
                THEN Append(queue, <<m, next_process_id>>)
                ELSE queue
    /\ start_results' = Append(start_results,
         [module |-> m, id |-> next_process_id, ok |-> SendOk(queue)])
    /\ UNCHANGED <<next_module_id, modules, instance_pre, started_at, ended_at,
                   sender, loop_pc, tasks, client_pc, loading, now,
                   load_results, writes>>
    /\ UNCHANGED observed

\* main, line 156: the thread that owns the handle ends, the handle and
\* with it the only sender is dropped.
DropHandle ==
    /\ client_pc = "idle"
    /\ client_pc' = "exited"
    /\ sender' = FALSE
    /\ UNCHANGED <<next_module_id, next_process_id, modules, instance_pre,
                   started_at, ended_at, queue, loop_pc, tasks, loading, now,
                   load_results, start_results, writes>>
    /\ UNCHANGED observed

(* -------------------------- the scheduler loop ------------------------ *)

\* Lunatic::new returns the loop as a future: its owner may drop it instead
\* of awaiting it, which drops the receiver and the messages it holds.
\* Tasks already spawned live on in the runtime.
DropTask ==
    /\ loop_pc # "dropped"
    /\ loop_pc' = "dropped"
    /\ queue' = <<>>
    /\ UNCHANGED <<next_module_id, next_process_id, modules, instance_pre,
                   started_at, ended_at, sender, tasks, client_pc, loading,
                   now, load_results, start_results, writes>>
    /\ UNCHANGED observed

\* tokio::spawn(async move { .. }), line 69: a task that has not run yet.
NewTask(module_id) ==
    [module_id |-> module_id, pc |-> "spawned", template |-> "none",
     entry |-> "none", fuel |-> 0, injected |-> 0, exhausted |-> FALSE, work |-> 0,
     why |-> "none"]

\* The loop awaits the JoinHandle of each task it spawns: it receives again
\* only when every task spawned so far is over.
LoopRecvSomeAwaits ==
    /\ \A p \in DOMAIN tasks : tasks[p].pc \in {"ended", "panicked"}
    /\ loop_pc = "recv"
    /\ queue # <<>>
    /\ queue' = Tail(queue)
    /\ tasks' = Insert(tasks, Head(queue)[2], NewTask(Head(queue)[1]))
    /\ writes' = Insert(writes, Head(queue)[2], [started |-> 0, ended |-> 0])
    /\ UNCHANGED <<next_module_id, next_process_id, modules, instance_pre,
                   started_at, ended_at, sender, loop_pc, client_pc, loading,
                   now, load_results, start_results, observed>>

\* The channel hands out the message sent last, not the one sent first.
LoopRecvSomeLast ==
    /\ loop_pc = "recv"
    /\ queue # <<>>
    /\ queue' = SubSeq(queue, 1, Len(queue) - 1)
    /\ tasks' = Insert(tasks, queue[Len(queue)][2],
                       NewTask(queue[Len(queue)][1]))
    /\ writes' = Insert(writes, queue[Len(queue)][2],
                        [started |-> 0, ended |-> 0])
    /\ UNCHANGED <<next_module_id, next_process_id, modules, instance_pre,
                   started_at, ended_at, sender, loop_pc, client_pc, loading,
                   now, load_results, start_results, observed>>

\* lines 67-69: recv() yields Some((module_id, process_id)); spawn the task
LoopRecvSome ==
    /\ loop_pc = "recv"
    /\ queue # <<>>
    /\ queue' = Tail(queue)
    /\ tasks' = Insert(tasks, Head(queue)[2], NewTask(Head(queue)[1]))
    /\ writes' = Insert(writes, Head(queue)[2], [started |-> 0, ended |-> 0])
    /\ UNCHANGED <<next_module_id, next_process_id, modules, instance_pre,
                   started_at, ended_at, sender, loop_pc, client_pc, loading,
                   now, load_results, start_results>>
    /\ UNCHANGED observed

\* line 67: the channel is closed and empty, recv() yields None, the
\* `if let` does not match ...
LoopRecvNone ==
    /\ loop_pc = "recv"
    /\ queue = <<>>
    /\ ~sender
    /\ loop_pc' = "next_iter"
    /\ UNCHANGED <<next_module_id, next_process_id, modules, instance_pre,
                   started_at, ended_at, queue, sender, tasks, client_pc,
                   loading, now, load_results, start_results, writes>>
    /\ UNCHANGED observed

\* ... lines 82-83 and 66: and `loop` starts its next iteration.
LoopNextIter ==
    /\ loop_pc = "next_iter"
    /\ loop_pc' = "recv"
    /\ UNCHANGED <<next_module_id, next_process_id, modules, instance_pre,
                   started_at, ended_at, queue, sender, tasks, client_pc,
                   loading, now, load_results, start_results, writes>>
    /\ UNCHANGED observed

(* --------------------------- the runner task -------------------------- *)

\* The panic of a task takes the loop down with it, as it does when the
\* program is built to abort on panic.
TaskPanicAborts(p, why) ==
    /\ tasks' = [tasks EXCEPT ![p].pc = "panicked", ![p].why = why]
    /\ loop_pc' = "dropped"
    /\ UNCHANGED queue

\* An unwrap() that fails inside a spawned task panics the task: tokio
\* catches the unwinding at the task boundary, the rest of the async block
\* never runs, and neither the loop nor the channel is touched.
TaskPanic(p, why) ==
    /\ tasks' = [tasks EXCEPT ![p].pc = "panicked", ![p].why = why]
    /\ UNCHANGED <<loop_pc, queue>>

\* The start timestamp is not written.
RecordStartSkipped(p) == UNCHANGED <<now, started_at, writes>>

\* line 70: started_at.insert(process_id, Instant::now())
RecordStart(p) ==
    /\ \E t \in InstantNow :
         /\ now' = t
         /\ started_at' = Insert(started_at, p, t)
    /\ writes' = [writes EXCEPT ![p].started = @ + 1]

\* The end timestamp is written under the key 0, whichever process ends.
RecordEndUnderZero(p) ==
    /\ \E t \in InstantNow :
         /\ now' = t
         /\ ended_at' = Insert(ended_at, 0, t)
    /\ writes' = [writes EXCEPT ![p].ended = @ + 1]

\* The end timestamp is not written.
RecordEndSkipped(p) == UNCHANGED <<now, ended_at, writes>>

\* line 80: ended_at.insert(process_id, Instant::now())
RecordEnd(p) ==
    /\ \E t \in InstantNow :
         /\ now' = t
         /\ ended_at' = Insert(ended_at, p, t)
    /\ writes' = [writes EXCEPT ![p].ended = @ + 1]

\* lines 70-73: the start timestamp, Store::new, add_fuel(1000),
\* out_of_fuel_async_yield(u32::MAX, 1000)
RunnerStart(p) ==
    /\ p \in DOMAIN tasks
    /\ tasks[p].pc = "spawned"
    /\ RecordStart(p)
    /\ tasks' = [tasks EXCEPT ![p].pc = "lookup", ![p].fuel = InitialFuel]
    /\ UNCHANGED <<next_module_id, next_process_id, modules, instance_pre,
                   ended_at, queue, sender, loop_pc, client_pc, loading,
                   load_results, start_results>>
    /\ UNCHANGED observed

\* A lookup that finds no template falls back on a built-in one instead of
\* panicking.
RunnerInstantiateFallback(p) ==
    /\ p \in DOMAIN tasks
    /\ tasks[p].pc = "lookup"
    /\ LET template == IF tasks[p].module_id \in DOMAIN instance_pre
                       THEN instance_pre[tasks[p].module_id]
                       ELSE "hello" IN
       IF HasTypedHello(template)
       THEN /\ \E e \in EntryBehaviours :
                 tasks' = [tasks EXCEPT ![p].pc = "call",
                                        ![p].template = template,
                                        ![p].entry = e,
                                        ![p].work = EntryCost(e)]
            /\ UNCHANGED <<loop_pc, queue>>
       ELSE TaskPanic(p, "InstantiationFailed")
    /\ UNCHANGED <<next_module_id, next_process_id, modules, instance_pre,
                   started_at, ended_at, sender, client_pc, loading, now,
                   load_results, start_results, writes, observed>>

\* line 74: instance_pre.get(&module_id).unwrap();
\* lines 75-78: instantiate_async(..).await.unwrap(),
\* get_typed_func::<u64, u64, _>(.., "hello").unwrap().
\* The template is read from the shared map once, at line 74; what follows
\* works on the task's own store.
RunnerInstantiate(p) ==
    /\ p \in DOMAIN tasks
    /\ tasks[p].pc = "lookup"
    /\ IF tasks[p].module_id \notin DOMAIN instance_pre
       THEN TaskPanic(p, "UnknownModule")
       ELSE LET template == instance_pre[tasks[p].module_id] IN
            IF HasTypedHello(template)
            THEN /\ \E e \in EntryBehaviours :
                      tasks' = [tasks EXCEPT ![p].pc = "call",
                                             ![p].template = template,
                                             ![p].entry = e,
                                             ![p].work = EntryCost(e)]
                 /\ UNCHANGED <<loop_pc, queue>>
            ELSE TaskPanic(p, "InstantiationFailed")
    /\ UNCHANGED <<next_module_id, next_process_id, modules, instance_pre,
                   started_at, ended_at, sender, client_pc, loading, now,
                   load_results, start_results, writes>>
    /\ UNCHANGED observed

\* The store injects fuel and yields however often the entry point runs
\* out of it.
InjectUnbounded(t) ==
    [t EXCEPT !.fuel = FuelToInject, !.injected = @ + 1,
              !.work = IF t.entry = "spins" THEN @ ELSE @ - t.fuel]

\* The store of task t injects fuel once more and yields.  The injections
\* of a spinning entry point are followed one by one up to
\* MaxTrackedYields; the step after that stands for all that remain of the
\* u32::MAX, which change nothing but the task's own counter.
Inject(t) ==
    IF t.entry = "spins" /\ t.injected >= MaxTrackedYields
    THEN [t EXCEPT !.fuel = FuelToInject, !.exhausted = TRUE]
    ELSE [t EXCEPT !.fuel = FuelToInject, !.injected = @ + 1,
                   !.work = IF t.entry = "spins" THEN @ ELSE @ - t.fuel]

\* line 79, one poll of hello.call_async(..): the entry point runs until
\* it traps, returns or has burnt the fuel of the store.
\* line 80, after the return: ended_at.insert(process_id, Instant::now()).
\* Out of fuel, the store injects FuelToInject and yields while injections
\* are left (out_of_fuel_async_yield) and traps when none is; the trap
\* comes back as Err and the unwrap() panics.
RunnerCall(p) ==
    /\ p \in DOMAIN tasks
    /\ tasks[p].pc = "call"
    /\ LET t == tasks[p] IN
       IF t.entry # "spins" /\ t.work <= t.fuel
       THEN IF t.entry = "traps"
            THEN /\ TaskPanic(p, "Trap")
                 /\ UNCHANGED <<ended_at, now, writes>>
            ELSE /\ RecordEnd(p)
                 /\ tasks' = [tasks EXCEPT ![p].pc = "ended",
                                           ![p].fuel = t.fuel - t.work,
                                           ![p].work = 0]
                 /\ UNCHANGED <<loop_pc, queue>>
       ELSE IF t.exhausted
            THEN /\ TaskPanic(p, "OutOfFuel")
                 /\ UNCHANGED <<ended_at, now, writes>>
            ELSE /\ tasks' = [tasks EXCEPT ![p] = Inject(t)]
                 /\ UNCHANGED <<loop_pc, queue, ended_at, now, writes>>
    /\ UNCHANGED <<next_module_id, next_process_id, modules, instance_pre,
                   started_at, sender, client_pc, loading, load_results,
                   start_results>>
    /\ UNCHANGED observed

(* ------------------------- the monitor of main ------------------------ *)

\* The started count is read before the ended count.
ReadOrderSwapped == <<"started", "ended">>

\* main, lines 133-134: `ended` is read first, `started` second
ReadOrder == <<"ended", "started">>

\* DashMap::len() of the map behind a local of the monitor
MapLen(local) == IF local = "ended" THEN EndedCount ELSE StartedCount

\* main, line 127: n, the number of start calls made (3000 in main)
n == Len(start_results)

\* main, lines 131-133: the starts are over, the thread sleeps and reads the
\* first of the two counts.
MonitorReadFirst ==
    /\ client_pc \in {"idle", "monitoring"}
    /\ observed' = [NotRead EXCEPT ![ReadOrder[1]] = MapLen(ReadOrder[1])]
    /\ client_pc' = "read_first"
    /\ UNCHANGED <<next_module_id, next_process_id, modules, instance_pre,
                   started_at, ended_at, queue, sender, loop_pc, tasks,
                   loading, now, load_results, start_results, writes>>

\* main, lines 134-138: the second count is read; `if ended == n { break }`,
\* else the pair is printed and the loop goes round.
MonitorReadSecond ==
    /\ client_pc = "read_first"
    /\ observed' = [observed EXCEPT ![ReadOrder[2]] = MapLen(ReadOrder[2])]
    /\ client_pc' = IF observed'.ended = n THEN "broke" ELSE "monitoring"
    /\ UNCHANGED <<next_module_id, next_process_id, modules, instance_pre,
                   started_at, ended_at, queue, sender, loop_pc, tasks,
                   loading, now, load_results, start_results, writes>>

\* main, lines 140-156: min of started_at and max of ended_at, each
\* unwrapped, so that an empty map panics the thread; either way the thread
\* ends and the handle is dropped.
MonitorTotal ==
    /\ client_pc = "broke"
    /\ client_pc' = IF started_at = EmptyMap \/ ended_at = EmptyMap
                    THEN "panicked" ELSE "exited"
    /\ sender' = FALSE
    /\ UNCHANGED <<next_module_id, next_process_id, modules, instance_pre,
                   started_at, ended_at, queue, loop_pc, tasks, loading, now,
                   load_results, start_results, writes, observed>>

(* --------------------------- specifications --------------------------- *)

\* ProcessIds start can issue within the bounds
ProcessIds == 0..(MaxCalls - 1)

Client ==
    \/ \E b \in Bytecodes : LoadCompile(b)
    \/ LoadLink
    \/ \E m \in ModuleIds : Start(m)
    \/ DropHandle

Loop ==
    \/ LoopRecvSome
    \/ LoopRecvNone
    \/ LoopNextIter

Runner(p) ==
    \/ RunnerStart(p)
    \/ RunnerInstantiate(p)
    \/ RunnerCall(p)

Next ==
    \/ Client
    \/ Loop
    \/ \E p \in ProcessIds : Runner(p)
    \/ DropTask

\* Every use of the API: the owner of the loop's future may drop it.
Spec == Init /\ [][Next]_vars

NextAwaited ==
    \/ Client
    \/ Loop
    \/ \E p \in ProcessIds : Runner(p)

\* main, line 158: the loop's future is awaited on the tokio runtime, which
\* polls the loop and every spawned task again whenever it can proceed.
FairSpec ==
    /\ Init
    /\ [][NextAwaited]_vars
    /\ WF_vars(Loop)
    /\ \A p \in ProcessIds : WF_vars(Runner(p))

Monitor ==
    \/ MonitorReadFirst
    \/ MonitorReadSecond
    \/ MonitorTotal

NextMain ==
    \/ Client
    \/ Monitor
    \/ Loop
    \/ \E p \in ProcessIds : Runner(p)

\* main, lines 120-158: the client thread goes on to watch the two counts
\* while the loop's future is awaited.
MainSpec == Init /\ [][NextMain]_vars

\* The runtime polls the loop whenever it can proceed; of the spawned tasks
\* nothing is assumed, so that any of them may stay where it is for ever.
LoopFairSpec ==
    /\ Init
    /\ [][NextAwaited]_vars
    /\ WF_vars(Loop)

(* ------------------------------- claims ------------------------------- *)

Terminal(p) == p \in DOMAIN tasks /\ tasks[p].pc \in {"ended", "panicked"}

InFlight(p) == p \in DOMAIN tasks /\ tasks[p].pc \notin {"ended", "panicked"}

SomeTaskPanicked == \E p \in DOMAIN tasks : tasks[p].pc = "panicked"

\* The client makes no further call: its thread has ended.
ClientGone == client_pc \in {"exited", "panicked"}

\* C1: for every request the loop has dequeued, the runner writes the
\* start timestamp exactly once and the end timestamp exactly once,
\* whichever way the run ends: never more than one write of either, and one
\* of each once the task is over.
C1_OneStartOneEndWrite ==
    \A p \in DOMAIN tasks :
        /\ writes[p].started <= 1
        /\ writes[p].ended <= 1
        /\ Terminal(p) => writes[p].started = 1 /\ writes[p].ended = 1

\* C2: a start against a ModuleId that is never registered returns an
\* error, and no start or end entry exists for its ProcessId.
C2_UnknownModuleRejected ==
    \A i \in DOMAIN start_results :
        LET r == start_results[i] IN
        (ClientGone /\ r.module >= next_module_id)
            => /\ ~r.ok
               /\ r.id \notin DOMAIN started_at
               /\ r.id \notin DOMAIN ended_at

\* C6: a process whose entry point needs more fuel than the initial grant
\* and all injections give ends as a failure from lack of fuel, and has an
\* end timestamp.
C6_OutOfFuelIsRecordedAsEnded ==
    \A p \in DOMAIN tasks :
        (tasks[p].entry = "spins" /\ Terminal(p))
            => /\ tasks[p].why = "OutOfFuel"
               /\ p \in DOMAIN ended_at

\* C7: every ProcessId with an end timestamp has a start timestamp, which
\* is there in every state the end timestamp is, and start <= end.
C7_StartBeforeEnd ==
    \A p \in DOMAIN ended_at :
        /\ p \in DOMAIN started_at
        /\ started_at[p] <= ended_at[p]

\* A process has ended at a later instant than it started.
C7_Witness ==
    \E p \in DOMAIN ended_at :
        p \in DOMAIN started_at /\ started_at[p] < ended_at[p]

\* Some task has panicked, a request is still in the channel and another
\* task is under way.
C3_Witness ==
    /\ SomeTaskPanicked
    /\ queue # <<>>
    /\ \E q \in DOMAIN tasks : InFlight(q)

\* Every request sent so far has been dequeued, its task spawned, and the
\* task has come to its end.
AllSpawnsOver ==
    \A i \in DOMAIN start_results :
        start_results[i].ok => Terminal(start_results[i].id)

\* C3: the failure of one process stops neither the loop nor any other
\* process: from every state in which some task has panicked, whatever is
\* in the channel then or is sent later is still dequeued and its task
\* spawned, and every task under way still comes to its end.
C3_FailureIsolation == SomeTaskPanicked ~> AllSpawnsOver

\* The runner of process p has looked up its template (line 74).
LookedUp(p) == p \in DOMAIN tasks /\ tasks[p].pc \notin {"spawned", "lookup"}

\* Every start so far was sent and names a registered module with a typed
\* hello that returns: one that has its template now, while the runner has
\* yet to look it up, and one whose hello the runner found to return, once
\* it has.
AllSpawnsReturn ==
    \A i \in DOMAIN start_results :
        LET r == start_results[i] IN
        /\ r.ok
        /\ IF LookedUp(r.id)
           THEN tasks[r.id].entry = "returns"
           ELSE /\ r.module \in DOMAIN instance_pre
                /\ HasTypedHello(instance_pre[r.module])

IssuedIds == {start_results[i].id : i \in DOMAIN start_results}

\* Two processes of a registered module have been spawned and have both
\* returned.
C4_Witness ==
    /\ Len(start_results) = 2
    /\ AllSpawnsReturn
    /\ StartedCount = 2
    /\ EndedCount = 2

\* C4: N spawns of registered modules whose entry points return are given
\* N distinct ProcessIds, and from some point on
\* started_count() = ended_count() = N.
C4_AllSpawnsEnd ==
    /\ [](Cardinality(IssuedIds) = Len(start_results))
    /\ <>[](AllSpawnsReturn =>
              /\ StartedCount = Len(start_results)
              /\ EndedCount = Len(start_results))

\* The position after the `loop`, which the future is at once it completes.
LoopDone == loop_pc = "done"

\* C5: the loop does not terminate while the channel is open or holds a
\* request, and terminates once the channel is closed and empty.
C5_LoopEndsWhenClosedAndDrained ==
    /\ [](LoopDone => (~sender /\ queue = <<>>))
    /\ (~sender /\ queue = <<>>) ~> LoopDone

OkLoads == SelectSeq(load_results, LAMBDA r : r.result = "Ok")

\* Two registrations have succeeded.
C8_Witness == Len(OkLoads) >= 2

\* C8: the ModuleIds that successful registrations return are strictly
\* increasing in the order of issue, and so pairwise distinct; the id of a
\* registration under way is above all of them.
C8_ModuleIdsIncrease ==
    /\ \A i, j \in DOMAIN OkLoads : i < j => OkLoads[i].id < OkLoads[j].id
    /\ client_pc = "load_link" =>
         \A i \in DOMAIN OkLoads : OkLoads[i].id < loading.id

\* A start that failed to enqueue is followed by another start.
C9_Witness ==
    \E i, j \in DOMAIN start_results : i < j /\ ~start_results[i].ok

\* C9: every start is given a ProcessId above those of all starts before
\* it, whether or not those were enqueued.
C9_ProcessIdsIncrease ==
    \A i, j \in DOMAIN start_results :
        i < j => start_results[i].id < start_results[j].id

\* One start has succeeded while a request was already waiting in the
\* channel, and one has failed.
C10_Witness ==
    /\ \E i \in DOMAIN start_results : ~start_results[i].ok
    /\ \E i, j \in DOMAIN start_results :
         i < j /\ start_results[i].ok /\ start_results[j].ok
           /\ start_results[i].id \notin DOMAIN tasks

\* C10: a start is never kept waiting by the channel, it returns an error
\* exactly when the receiver is gone, and otherwise its pair is the new
\* last message of the channel.
C10_SendFailsOnlyWhenClosed ==
    /\ []((client_pc = "idle"
             /\ Len(load_results) + Len(start_results) < MaxCalls)
          => ENABLED (\E m \in ModuleIds : Start(m)))
    /\ [][Len(start_results') > Len(start_results) =>
            LET r == start_results'[Len(start_results')] IN
            /\ r.ok <=> ReceiverAlive
            /\ queue' = IF ReceiverAlive
                        THEN Append(queue, <<r.module, r.id>>)
                        ELSE queue]_vars

\* Every request sent so far has been dequeued and its task spawned.
AllDispatched ==
    \A i \in DOMAIN start_results :
        start_results[i].ok => start_results[i].id \in DOMAIN tasks

\* A task has been spawned for a later request while the task of an
\* earlier one is still under way.
C11_Witness ==
    \E p, q \in DOMAIN tasks : p < q /\ InFlight(p)

\* C11: the loop never waits for a runner: whenever it is at recv() and a
\* request is in the channel it can dequeue it, whatever the tasks spawned
\* before are doing; and with the loop scheduled fairly every request sent
\* is dequeued in the end, even if the tasks spawned before never move.
C11_LoopNeverWaitsForRunner ==
    /\ []((loop_pc = "recv" /\ queue # <<>>) => ENABLED LoopRecvSome)
    /\ []<>AllDispatched

\* The pairs start has sent, in the order of the calls.
OkStarts == SelectSeq(start_results, LAMBDA r : r.ok)
Sent == [i \in DOMAIN OkStarts |-> <<OkStarts[i].module, OkStarts[i].id>>]

\* Two tasks have been spawned while a third request waits in the channel.
C12_Witness ==
    /\ Cardinality(DOMAIN tasks) >= 2
    /\ queue # <<>>

\* C12: requests are dequeued, and their tasks spawned, in the order in
\* which start enqueued them, none lost, doubled or out of turn: the
\* tasks spawned so far are those of the first k pairs sent, each for the
\* module sent with it, and while the loop lives the channel holds exactly
\* the pairs after the k-th, in the order sent.
C12_DispatchInEnqueueOrder ==
    \E k \in 0..Len(Sent) :
        /\ DOMAIN tasks = {Sent[i][2] : i \in 1..k}
        /\ \A i \in 1..k : tasks[Sent[i][2]].module_id = Sent[i][1]
        /\ ReceiverAlive => queue = SubSeq(Sent, k + 1, Len(Sent))

\* The entry point of process p has been invoked (line 79).
Invoked(p) == p \in DOMAIN tasks /\ tasks[p].entry # "none"

\* An entry point is running while the task of another request has
\* panicked at the lookup, for want of a template under its ModuleId.
C13_Witness ==
    \E p \in DOMAIN tasks :
        /\ tasks[p].pc = "call"
        /\ \E i, j \in DOMAIN start_results :
             /\ start_results[i].id = p
             /\ start_results[j].id \in DOMAIN tasks
             /\ tasks[start_results[j].id].why = "UnknownModule"

\* C13: a process whose entry point has been invoked was instantiated from
\* the template stored under its own ModuleId, and that ModuleId has a
\* module and a template; no entry point is invoked for a request whose
\* ModuleId has no template.
C13_RunsOnlyRegisteredTemplate ==
    \A p \in DOMAIN tasks :
        Invoked(p) =>
            /\ tasks[p].module_id \in DOMAIN modules
            /\ tasks[p].module_id \in DOMAIN instance_pre
            /\ tasks[p].template = instance_pre[tasks[p].module_id]

\* The ProcessIds of the requests in the channel, in order.
QueuedIds == [i \in DOMAIN queue |-> queue[i][2]]

\* A task has been spawned for one request while two more wait in the
\* channel.
C14_Witness ==
    /\ tasks # EmptyMap
    /\ Len(queue) >= 2

\* C14: at most one runner task is ever created for a ProcessId: no
\* ProcessId is in the channel twice, none is in the channel once a task
\* has been spawned for it, and every step that takes a request out of the
\* channel and spawns spawns one task, for the ProcessId at the head of the
\* channel, which had no task before.
C14_OneRunnerPerProcessId ==
    /\ [](/\ \A i, j \in DOMAIN queue : i # j => QueuedIds[i] # QueuedIds[j]
          /\ \A i \in DOMAIN queue : QueuedIds[i] \notin DOMAIN tasks)
    /\ [][(queue # <<>> /\ queue' = Tail(queue) /\ tasks' # tasks) =>
            /\ QueuedIds[1] \notin DOMAIN tasks
            /\ DOMAIN tasks' = DOMAIN tasks \cup {QueuedIds[1]}
            /\ \A p \in DOMAIN tasks : tasks'[p] = tasks[p]]_vars

\* A registration of bytes that do not compile has returned its error
\* after another registration had succeeded.
C15_Witness ==
    \E i, j \in DOMAIN load_results :
        /\ i < j
        /\ load_results[i].result = "Ok"
        /\ load_results[j].result = "Err"

\* C15: a registration returns the compilation error exactly when its
\* bytes do not compile, and the call that returns it leaves the registry
\* as it was: the next ModuleId, the modules and the templates.
C15_FailedCompileLeavesRegistry ==
    /\ [](\A i \in DOMAIN load_results :
            load_results[i].result = "Err" <=> ~Compiles(load_results[i].bytes))
    /\ [][(Len(load_results') > Len(load_results)
             /\ load_results'[Len(load_results')].result = "Err") =>
            /\ next_module_id' = next_module_id
            /\ modules' = modules
            /\ instance_pre' = instance_pre]_vars

\* C16: the runner looks up the template, creates the instance, records
\* the start timestamp and invokes the entry point, in this order: a start
\* timestamp exists for a ProcessId only if the lookup of its template and
\* the creation of its instance have succeeded.
C16_StartRecordedAfterInstantiate ==
    \A p \in DOMAIN started_at :
        /\ p \in DOMAIN tasks
        /\ tasks[p].template # "none"

\* C17: whenever no registration is under way, also after one whose
\* template construction failed, the ModuleIds with a compiled module are
\* the ModuleIds with an instantiation template.
C17_ModulesAndTemplatesAgree ==
    client_pc # "load_link" => DOMAIN modules = DOMAIN instance_pre

\* The entry point of task t has burnt the fuel of its store.
OutOfFuel(t) == t.pc = "call" /\ (t.entry = "spins" \/ t.work > t.fuel)

\* One process has returned after a further grant, and one has been given
\* every grant there is and has failed for lack of fuel.
C18_Witness ==
    /\ \E p \in DOMAIN tasks :
         tasks[p].pc = "ended" /\ tasks[p].injected = 1
    /\ \E p \in DOMAIN tasks :
         tasks[p].why = "OutOfFuel" /\ tasks[p].exhausted

\* C18: a process starts with the initial grant of 1000; each further
\* grant is of 1000 and is made when the process has burnt its fuel; the
\* grants followed one by one number at most MaxTrackedYields, and a
\* process that has had all its grants and runs out of fuel again is given
\* no more and fails.
C18_BoundedFuelGrants ==
    /\ [](\A p \in DOMAIN tasks :
            /\ tasks[p].fuel <= InitialFuel
            /\ tasks[p].injected <= MaxTrackedYields
            /\ tasks[p].pc = "lookup" =>
                 tasks[p].fuel = InitialFuel /\ tasks[p].injected = 0)
    /\ [][\A p \in DOMAIN tasks :
            /\ (tasks'[p].injected > tasks[p].injected
                  \/ tasks'[p].exhausted # tasks[p].exhausted) =>
                 /\ OutOfFuel(tasks[p])
                 /\ tasks'[p].fuel = FuelToInject
                 /\ tasks'[p].injected <= tasks[p].injected + 1
            /\ (tasks[p].exhausted /\ tasks'[p] # tasks[p]) =>
                 /\ tasks'[p].pc = "panicked"
                 /\ tasks'[p].why = "OutOfFuel"
                 /\ tasks'[p].fuel = tasks[p].fuel
                 /\ tasks'[p].injected = tasks[p].injected]_vars

\* The keys of map `after` that are not keys of map `before`.
NewKeys(before, after) == DOMAIN after \ DOMAIN before

\* Every entry of map `before` is in map `after` with the value it had.
Kept(before, after) ==
    \A p \in DOMAIN before : p \in DOMAIN after /\ after[p] = before[p]

\* Two processes have their end timestamps, written at different instants.
C19_Witness ==
    \E p, q \in DOMAIN ended_at : ended_at[p] < ended_at[q]

\* C19: a runner writes only the entries under its own ProcessId: no step
\* changes or removes a start or end timestamp that is there, and a step
\* that adds one adds it under the ProcessId of the one task that moves
\* in that step.
C19_RunnerWritesOwnEntriesOnce ==
    [][/\ Kept(started_at, started_at')
       /\ Kept(ended_at, ended_at')
       /\ \A p \in NewKeys(started_at, started_at')
                     \cup NewKeys(ended_at, ended_at') :
            /\ p \in DOMAIN tasks
            /\ tasks'[p] # tasks[p]
            /\ \A q \in DOMAIN tasks \ {p} : tasks'[q] = tasks[q]
            /\ NewKeys(started_at, started_at')
                 \cup NewKeys(ended_at, ended_at') = {p}]_vars

\* The monitor has read both counts (lines 133-134).
PairRead == observed.ended # -1 /\ observed.started # -1

\* The monitor has read a pair with fewer ended than started, and a
\* process has ended since it read the ended count.
C20_Witness ==
    /\ PairRead
    /\ observed.ended < observed.started
    /\ observed.ended < EndedCount

\* C20: the ProcessIds with an end timestamp are among those with a start
\* timestamp, which are among those issued; and every pair (ended, started)
\* the monitor reads, the ended count first, has
\* ended <= started <= the number of ProcessIds issued.
C20_CountsAreOrdered ==
    /\ DOMAIN ended_at \subseteq DOMAIN started_at
    /\ DOMAIN started_at \subseteq IssuedIds
    /\ Cardinality(IssuedIds) = next_process_id
    /\ PairRead =>
         /\ observed.ended <= observed.started
         /\ observed.started <= next_process_id

=============================================================================
